---- MODULE Spec2Model ----
(***************************************************************************)
(* Turtle DAO: the on-ledger instruction processor of                      *)
(* src/solana_program/src/lib.rs as a state machine.  One action per       *)
(* instruction handler; every invocation is atomic (the ledger rolls a     *)
(* failed invocation back), so a failing handler changes nothing: an      *)
(* action is enabled exactly when its handler returns Ok, and the outcome  *)
(* of any invocation in a state is given by the ...Result operators.       *)
(* Records are modelled as decoded values; rent is not modelled.           *)
(***************************************************************************)
EXTENDS Integers, Sequences, FiniteSets, TLC

(***************************************************************************)
(* Integer widths.  u64 is scaled down to U64Bits bits so that the wrapped *)
(* and the checked outcome of every +, * of the handlers can be computed;  *)
(* u8 keeps its width.                                                     *)
(***************************************************************************)
U64Bits == 20
Modulus == 2 ^ U64Bits
MaxU64 == Modulus - 1
U8Modulus == 256

Wrap(x) == x % Modulus
Overflows(x) == x < 0 \/ x > MaxU64

\* 7 * 24 * 60 * 60: lock_period (Deposit) and min_voting_period (CreateVote)
LockPeriod == 7 * 24 * 60 * 60
MinVotingPeriod == 7 * 24 * 60 * 60

(***************************************************************************)
(* Bounds of the model and the inputs the callers draw from.               *)
(***************************************************************************)
MaxDeposits == 2
MaxClaims == 2
MaxBallots == 3
MaxPayouts == 1
NothingUsed == [deposits |-> 0, claims |-> 0, ballots |-> 0, payouts |-> 0]

Users == {"alice", "bob"}
Pool == "dao"
DSlots == {1, 2}          \* depositor-state account addresses
ContentSlots == {1, 2}    \* content account addresses
ProposalSlots == {1, 2}   \* proposal account addresses
ProposalIds == {0, 1}

\* A deposit large enough for total_deposit * deposit_share to exceed u64,
\* while the whole supply stays far below u64 (as the native token's does).
BigDeposit == Modulus \div 50
InitialLamports == [u \in Users \cup {Pool} |->
                      IF u = "alice" THEN BigDeposit + 600
                      ELSE IF u = "bob" THEN 600 ELSE 0]

BountyClock == {0, 1, 2, 3}
GovernanceClock == {0, MinVotingPeriod, MinVotingPeriod + 1}
Admins == {"alice"}
DaoConfigs == { [time_limit |-> 1, base_fee |-> 10, ai_moderation |-> TRUE, deposit_share |-> 20],
                [time_limit |-> 1, base_fee |-> 10, ai_moderation |-> TRUE, deposit_share |-> 100],
                [time_limit |-> MaxU64, base_fee |-> 10, ai_moderation |-> TRUE, deposit_share |-> 20],
                [time_limit |-> 1, base_fee |-> 10, ai_moderation |-> TRUE, deposit_share |-> 101] }
ProposalChoices == { [proposal_type |-> "TimeLimit", new_value |-> 2],
                     [proposal_type |-> "TimeLimit", new_value |-> 0],
                     [proposal_type |-> "BaseFee", new_value |-> 2],
                     [proposal_type |-> "AiModeration", new_value |-> 0] }
VotingPeriods == {MinVotingPeriod - 1, MinVotingPeriod}
ContentHashes == {"hash"}
ContentUris == {"uri"}
Distributions == { [creators |-> <<"alice", "bob">>, accounts |-> <<"alice", "bob">>, weights |-> <<60, 40>>],
                   [creators |-> <<"alice", "bob">>, accounts |-> <<"alice", "bob">>, weights |-> <<30, 30>>],
                   [creators |-> <<"alice", "bob">>, accounts |-> <<"alice", "alice">>, weights |-> <<60, 40>>] }

VARIABLES
  overflow_checks,  \* build profile: TRUE = arithmetic overflow panics, FALSE = it wraps
  now,              \* Clock::get().unix_timestamp
  lamports,         \* native balance of every identity and of the DAO account
  dao,              \* the DAO account: <<>> before creation, <<DaoState>> after
  contents,         \* content accounts in creation order (slot = index)
  depositors,       \* depositor-state accounts: slot -> Depositor, for the created slots
  proposals,        \* proposal accounts in creation order (slot = index)
  used,             \* how many deposits, claims, votes and payouts were committed (bounds the model only)
  last              \* the invocation committed last: its instruction, the slot it named, its log

vars == <<overflow_checks, now, lamports, dao, contents, depositors, proposals, used, last>>

Committed(op, slot, log) == [op |-> op, slot |-> slot, log |-> log]

DaoExists == Len(dao) = 1
Dao == dao[1]

\* A panic (checked build) on any overflowing intermediate value.
Panics(raws) == overflow_checks /\ \E i \in DOMAIN raws : Overflows(raws[i])

Init ==
  /\ overflow_checks \in BOOLEAN
  /\ now = 0
  /\ lamports = InitialLamports
  /\ dao = <<>>
  /\ contents = <<>>
  /\ depositors = << >>
  /\ proposals = <<>>
  /\ used = NothingUsed
  /\ last = Committed("none", 0, "")

\* Every handler below is "its result is Ok, and then its writes".  A failed
\* invocation is rolled back by the ledger: every record and balance stays as
\* before and nothing of it is committed, which is a stuttering step of the
\* specification ([Next]_vars allows it).  What a failing invocation returns is
\* the value of the handler's ...Result operator.

\* The clock moves forward between invocations (time is counted from the
\* creation of the DAO).
Tick(clock) ==
  /\ DaoExists
  /\ \E t \in clock : t > now /\ now' = t
  /\ UNCHANGED <<overflow_checks, lamports, dao, contents, depositors, proposals, used, last>>

(***************************************************************************)
(* InitializeDao                                                           *)
(***************************************************************************)
\* Variant of the checks that refuses deposit_share = 100 as well.
InitializeDaoResult_Below100(signer, deposit_share) ==
  IF ~signer THEN "MissingRequiredSignature"
  ELSE IF deposit_share >= 100 THEN "InvalidArgument"
  ELSE IF DaoExists THEN "AccountAlreadyInUse"
  ELSE "Ok"

InitializeDaoResult(signer, deposit_share) ==
  IF ~signer THEN "MissingRequiredSignature"
  ELSE IF deposit_share > 100 THEN "InvalidArgument"
  ELSE IF DaoExists THEN "AccountAlreadyInUse"
  ELSE "Ok"

\* Variant of the fresh DaoState whose timer starts at 0 instead of now.
NewDaoState_TimerAtZero(caller, time_limit, base_fee, ai_moderation, deposit_share) ==
  [ admin |-> caller,
    time_limit |-> time_limit,
    base_fee |-> base_fee,
    ai_moderation |-> ai_moderation,
    deposit_share |-> deposit_share,
    last_activity_timestamp |-> 0,
    total_deposit |-> 0,
    active_proposal_count |-> 0,
    content_count |-> 0,
    depositor_count |-> 0 ]

NewDaoState(caller, time_limit, base_fee, ai_moderation, deposit_share) ==
  [ admin |-> caller,
    time_limit |-> time_limit,
    base_fee |-> base_fee,
    ai_moderation |-> ai_moderation,
    deposit_share |-> deposit_share,
    last_activity_timestamp |-> now,
    total_deposit |-> 0,
    active_proposal_count |-> 0,
    content_count |-> 0,
    depositor_count |-> 0 ]

ProcessInitializeDao(caller, signer, time_limit, base_fee, ai_moderation, deposit_share) ==
  /\ InitializeDaoResult(signer, deposit_share) = "Ok"
  /\ dao' = <<NewDaoState(caller, time_limit, base_fee, ai_moderation, deposit_share)>>
  /\ last' = Committed("InitializeDao", 0, "initialized")
  /\ UNCHANGED <<overflow_checks, now, lamports, contents, depositors, proposals, used>>

(***************************************************************************)
(* SubmitContent                                                           *)
(***************************************************************************)
NewContent(caller, content_hash, content_uri) ==
  [ author |-> caller,
    content_hash |-> content_hash,
    content_uri |-> content_uri,
    timestamp |-> now,
    votes |-> 0 ]

\* Variant of the timer reset that does not count the submission.
ResetTimer_NoCount(d) == [d EXCEPT !.last_activity_timestamp = now]

\* Update DAO state (reset timer)
ResetTimer(d) ==
  [d EXCEPT !.last_activity_timestamp = now,
            !.content_count = Wrap(d.content_count + 1)]

SubmitContentResult(caller, signer, slot) ==
  IF ~signer THEN "MissingRequiredSignature"
  ELSE IF ~DaoExists THEN "BorshIoError"
  ELSE IF lamports[caller] < Dao.base_fee THEN "InsufficientFunds"
  ELSE IF slot \in DOMAIN contents THEN "AccountAlreadyInUse"
  ELSE IF Panics(<<Dao.content_count + 1>>) THEN "Panic"
  ELSE "Ok"

ProcessSubmitContent(caller, signer, slot, content_hash, content_uri) ==
  /\ SubmitContentResult(caller, signer, slot) = "Ok"
  /\ lamports' = [lamports EXCEPT ![caller] = @ - Dao.base_fee,
                                  ![Pool] = @ + Dao.base_fee]
  /\ contents' = Append(contents, NewContent(caller, content_hash, content_uri))
  /\ dao' = <<ResetTimer(Dao)>>
  /\ last' = Committed("SubmitContent", slot, "submitted")
  /\ UNCHANGED <<overflow_checks, now, depositors, proposals, used>>

(***************************************************************************)
(* Deposit                                                                 *)
(***************************************************************************)
\* Check if depositor already exists
DepositorFound(caller, slot) ==
  slot \in DOMAIN depositors /\ depositors[slot].pubkey = caller

\* Variant of the top-up that stores the deposit instead of adding it.
TopUp_Replaces(dep, amount) ==
  [dep EXCEPT !.amount = amount,
              !.locked_until = Wrap(now + LockPeriod),
              !.voting_power = amount]

\* Variant of the top-up whose voting_power is the last deposit only.
TopUp_PowerOfLast(dep, amount) ==
  [dep EXCEPT !.amount = Wrap(dep.amount + amount),
              !.locked_until = Wrap(now + LockPeriod),
              !.voting_power = amount]

TopUp(dep, amount) ==
  [dep EXCEPT !.amount = Wrap(dep.amount + amount),
              !.locked_until = Wrap(now + LockPeriod),
              !.voting_power = Wrap(dep.amount + amount)]

NewDepositor(caller, amount) ==
  [ pubkey |-> caller,
    amount |-> amount,
    locked_until |-> Wrap(now + LockPeriod),
    voting_power |-> amount ]

\* dao_state.depositor_count += 1, in the branch that creates the record only
DepositorCountAfter_Always(d, found) == Wrap(d.depositor_count + 1)

DepositorCountAfter(d, found) ==
  IF found THEN d.depositor_count ELSE Wrap(d.depositor_count + 1)

DepositArith(caller, slot, amount) ==
  <<now + LockPeriod, Dao.total_deposit + amount>>
  \o (IF DepositorFound(caller, slot)
      THEN <<depositors[slot].amount + amount>>
      ELSE <<Dao.depositor_count + 1>>)

DepositResult(caller, signer, slot, amount) ==
  IF ~signer THEN "MissingRequiredSignature"
  ELSE IF ~DaoExists THEN "BorshIoError"
  ELSE IF lamports[caller] < amount THEN "InsufficientFunds"
  ELSE IF slot \in DOMAIN depositors /\ ~DepositorFound(caller, slot) THEN "AccountAlreadyInUse"
  ELSE IF Panics(DepositArith(caller, slot, amount)) THEN "Panic"
  ELSE "Ok"

ProcessDeposit(caller, signer, slot, amount) ==
  /\ DepositResult(caller, signer, slot, amount) = "Ok"
  /\ used.deposits < MaxDeposits
  /\ used' = [used EXCEPT !.deposits = @ + 1]
  /\ lamports' = [lamports EXCEPT ![caller] = @ - amount, ![Pool] = @ + amount]
  /\ depositors' =
       IF DepositorFound(caller, slot)
       THEN [depositors EXCEPT ![slot] = TopUp(@, amount)]
       ELSE [s \in DOMAIN depositors \cup {slot} |->
               IF s = slot THEN NewDepositor(caller, amount) ELSE depositors[s]]
  /\ dao' = <<[Dao EXCEPT
                 !.depositor_count =
                    DepositorCountAfter(Dao, DepositorFound(caller, slot)),
                 !.total_deposit = Wrap(@ + amount)]>>
  /\ last' = Committed("Deposit", slot, "deposited")
  /\ UNCHANGED <<overflow_checks, now, contents, proposals>>

(***************************************************************************)
(* ClaimReward                                                             *)
(***************************************************************************)
\* Check if claimer is the author of the content
IsAuthor(content, caller) == content.author = caller

\* last_activity_timestamp + time_limit, as the mathematical sum
Deadline(d) == d.last_activity_timestamp + d.time_limit

\* Check if time limit has passed since last activity
TimeLimitPassed(d, t) == ~(t < Wrap(Deadline(d)))

\* Variant of the last-submitted check that accepts any content not newer
\* than the last activity.
IsLastSubmitted_NotNewer(content, d) == content.timestamp <= d.last_activity_timestamp

\* Check if this content is the last one submitted
IsLastSubmitted(content, d) == content.timestamp = d.last_activity_timestamp

QualityShareAmount(d) == Wrap(d.total_deposit * d.deposit_share) \div 100

\* Variant of the reward that pays the whole total_deposit out.
RewardAmount_Whole(d) == d.total_deposit

RewardAmount(d) == d.total_deposit - QualityShareAmount(d)

ClaimRewardResult(caller, signer, slot) ==
  IF ~signer THEN "MissingRequiredSignature"
  ELSE IF ~DaoExists THEN "BorshIoError"
  ELSE IF slot \notin DOMAIN contents THEN "BorshIoError"
  ELSE IF ~IsAuthor(contents[slot], caller) THEN "InvalidAccountData"
  ELSE IF Panics(<<Deadline(Dao)>>) THEN "Panic"
  ELSE IF ~TimeLimitPassed(Dao, now) THEN "InvalidArgument"
  ELSE IF ~IsLastSubmitted(contents[slot], Dao) THEN "InvalidArgument"
  ELSE IF Panics(<<Dao.total_deposit * Dao.deposit_share>>) THEN "Panic"
  ELSE IF Overflows(lamports[Pool] - RewardAmount(Dao)) THEN "Panic"
  ELSE IF Panics(<<lamports[caller] + RewardAmount(Dao)>>) THEN "Panic"
  ELSE "Ok"

ProcessClaimReward(caller, signer, slot) ==
  /\ ClaimRewardResult(caller, signer, slot) = "Ok"
  /\ lamports' = [lamports EXCEPT ![Pool] = @ - RewardAmount(Dao),
                                  ![caller] = Wrap(lamports[caller] + RewardAmount(Dao))]
  /\ dao' = <<[Dao EXCEPT !.total_deposit = QualityShareAmount(Dao)]>>
  /\ used.claims < MaxClaims
  /\ used' = [used EXCEPT !.claims = @ + 1]
  /\ last' = Committed("ClaimReward", slot, "claimed")
  /\ UNCHANGED <<overflow_checks, now, contents, depositors, proposals>>

(***************************************************************************)
(* CreateVote                                                              *)
(***************************************************************************)
\* Verify proposer / voter is a depositor
IsDepositor(dslot, caller) == depositors[dslot].pubkey = caller

\* Variant of the minimum check that also refuses exactly one week.
VotingPeriodTooShort_OrEqual(voting_period) == voting_period <= MinVotingPeriod

\* Check minimum voting period (1 week)
VotingPeriodTooShort(voting_period) == voting_period < MinVotingPeriod

NewProposal(d, proposal_type, new_value, voting_period) ==
  [ id |-> d.active_proposal_count,
    proposal_type |-> proposal_type,
    new_value |-> new_value,
    voting_end_time |-> Wrap(now + voting_period),
    yes_votes |-> 0,
    no_votes |-> 0,
    is_executed |-> FALSE ]

CreateVoteResult(caller, signer, dslot, pslot, voting_period) ==
  IF ~signer THEN "MissingRequiredSignature"
  ELSE IF dslot \notin DOMAIN depositors THEN "BorshIoError"
  ELSE IF ~IsDepositor(dslot, caller) THEN "InvalidAccountData"
  ELSE IF VotingPeriodTooShort(voting_period) THEN "InvalidArgument"
  ELSE IF ~DaoExists THEN "BorshIoError"
  ELSE IF pslot \in DOMAIN proposals THEN "AccountAlreadyInUse"
  ELSE IF Panics(<<now + voting_period, Dao.active_proposal_count + 1>>) THEN "Panic"
  ELSE "Ok"

ProcessCreateVote(caller, signer, dslot, pslot, proposal_type, new_value, voting_period) ==
  /\ CreateVoteResult(caller, signer, dslot, pslot, voting_period) = "Ok"
  /\ proposals' = Append(proposals, NewProposal(Dao, proposal_type, new_value, voting_period))
  /\ dao' = <<[Dao EXCEPT !.active_proposal_count = Wrap(@ + 1)]>>
  /\ last' = Committed("CreateVote", pslot, "created")
  /\ UNCHANGED <<overflow_checks, now, lamports, contents, depositors, used>>

(***************************************************************************)
(* Vote                                                                    *)
(***************************************************************************)
\* Check if proposal exists
ProposalIdMatches(p, proposal_id) == p.id = proposal_id

\* Variant of the open-voting check that closes voting at voting_end_time.
VotingClosed_AtEnd(p, t) == t >= p.voting_end_time

\* Check if voting is still open
VotingClosed(p, t) == t > p.voting_end_time

\* Variant of the tally that counts every ballot as an approval.
RecordVote_AlwaysYes(p, power, approve) == [p EXCEPT !.yes_votes = Wrap(@ + power)]

\* Record vote
RecordVote(p, power, approve) ==
  IF approve THEN [p EXCEPT !.yes_votes = Wrap(@ + power)]
  ELSE [p EXCEPT !.no_votes = Wrap(@ + power)]

\* Variant of the execution check without the is_executed latch.
ExecutionDue_NoLatch(p, t) == t >= p.voting_end_time

\* Variant of the execution check that does not wait for voting_end_time.
ExecutionDue_AnyTime(p, t) == ~p.is_executed

\* Check if voting has ended and proposal can be executed
ExecutionDue(p, t) == t >= p.voting_end_time /\ ~p.is_executed

\* Variant of the approval test that lets a tie pass.
Approved_OrTie(p) == p.yes_votes >= p.no_votes

Approved(p) == p.yes_votes > p.no_votes

\* Variant of the execution match whose BaseFee arm writes time_limit.
ApplyProposal_WrongArm(d, p) ==
  CASE p.proposal_type = "TimeLimit" -> [d EXCEPT !.time_limit = p.new_value]
    [] p.proposal_type = "BaseFee" -> [d EXCEPT !.time_limit = p.new_value]
    [] p.proposal_type = "AiModeration" -> [d EXCEPT !.ai_moderation = (p.new_value # 0)]

\* Variant of the execution match whose BaseFee arm writes deposit_share.
ApplyProposal_SetsShare(d, p) ==
  CASE p.proposal_type = "TimeLimit" -> [d EXCEPT !.time_limit = p.new_value]
    [] p.proposal_type = "BaseFee" -> [d EXCEPT !.deposit_share = p.new_value]
    [] p.proposal_type = "AiModeration" -> [d EXCEPT !.ai_moderation = (p.new_value # 0)]

\* Execute proposal
ApplyProposal(d, p) ==
  CASE p.proposal_type = "TimeLimit" -> [d EXCEPT !.time_limit = p.new_value]
    [] p.proposal_type = "BaseFee" -> [d EXCEPT !.base_fee = p.new_value]
    [] p.proposal_type = "AiModeration" -> [d EXCEPT !.ai_moderation = (p.new_value # 0)]

VoteArith(dslot, pslot, approve) ==
  <<(IF approve THEN proposals[pslot].yes_votes ELSE proposals[pslot].no_votes)
      + depositors[dslot].voting_power>>

\* Variant of the checks that refuses a ballot on a proposal whose tallies
\* already hold the voter's voting_power.
VoteResult_OneBallot(caller, signer, dslot, pslot, proposal_id, approve) ==
  IF ~signer THEN "MissingRequiredSignature"
  ELSE IF dslot \notin DOMAIN depositors THEN "BorshIoError"
  ELSE IF ~IsDepositor(dslot, caller) THEN "InvalidAccountData"
  ELSE IF ~DaoExists THEN "BorshIoError"
  ELSE IF pslot \notin DOMAIN proposals THEN "BorshIoError"
  ELSE IF ~ProposalIdMatches(proposals[pslot], proposal_id) THEN "InvalidArgument"
  ELSE IF VotingClosed(proposals[pslot], now) THEN "InvalidArgument"
  ELSE IF proposals[pslot].yes_votes + proposals[pslot].no_votes
            >= depositors[dslot].voting_power THEN "InvalidArgument"
  ELSE IF Panics(VoteArith(dslot, pslot, approve)) THEN "Panic"
  ELSE "Ok"

VoteResult(caller, signer, dslot, pslot, proposal_id, approve) ==
  IF ~signer THEN "MissingRequiredSignature"
  ELSE IF dslot \notin DOMAIN depositors THEN "BorshIoError"
  ELSE IF ~IsDepositor(dslot, caller) THEN "InvalidAccountData"
  ELSE IF ~DaoExists THEN "BorshIoError"
  ELSE IF pslot \notin DOMAIN proposals THEN "BorshIoError"
  ELSE IF ~ProposalIdMatches(proposals[pslot], proposal_id) THEN "InvalidArgument"
  ELSE IF VotingClosed(proposals[pslot], now) THEN "InvalidArgument"
  ELSE IF Panics(VoteArith(dslot, pslot, approve)) THEN "Panic"
  ELSE "Ok"

\* The proposal after the vote is recorded and the execution check is made.
VotedProposal(dslot, pslot, approve) ==
  LET p == RecordVote(proposals[pslot], depositors[dslot].voting_power, approve) IN
  IF ExecutionDue(p, now) /\ Approved(p) THEN [p EXCEPT !.is_executed = TRUE] ELSE p

VoteLog(dslot, pslot, approve) ==
  LET p == RecordVote(proposals[pslot], depositors[dslot].voting_power, approve) IN
  IF ExecutionDue(p, now) THEN (IF Approved(p) THEN "executed" ELSE "rejected")
  ELSE "recorded"

ProcessVote(caller, signer, dslot, pslot, proposal_id, approve) ==
  /\ VoteResult(caller, signer, dslot, pslot, proposal_id, approve) = "Ok"
  /\ used.ballots < MaxBallots
  /\ used' = [used EXCEPT !.ballots = @ + 1]
  /\ proposals' = [proposals EXCEPT ![pslot] = VotedProposal(dslot, pslot, approve)]
  /\ dao' = IF VoteLog(dslot, pslot, approve) = "executed"
            THEN <<ApplyProposal(Dao, proposals[pslot])>>
            ELSE dao
  /\ last' = Committed("Vote", pslot, VoteLog(dslot, pslot, approve))
  /\ UNCHANGED <<overflow_checks, now, lamports, contents, depositors>>

(***************************************************************************)
(* DistributeQualityRewards                                                *)
(***************************************************************************)
RECURSIVE SumSeq(_)
SumSeq(q) == IF q = <<>> THEN 0 ELSE q[1] + SumSeq(Tail(q))

\* let sum: u8 = distribution_weights.iter().sum();
WeightSum(weights) == SumSeq(weights) % U8Modulus

\* Validate distribution weights sum to 100%
WeightsValid(weights) == WeightSum(weights) = 100

\* reward_amount of every entry, in input order
CreatorRewards(d, weights) ==
  [i \in DOMAIN weights |-> Wrap(d.total_deposit * weights[i]) \div 100]

\* what the loop credits to identity u
PaidTo(u, creators, rewards) ==
  SumSeq([i \in DOMAIN creators |-> IF creators[i] = u THEN rewards[i] ELSE 0])

\* Variant of the admin check that lets every signer pass.
IsAdmin_Anyone(d, caller) == TRUE

\* Check if caller is admin
IsAdmin(d, caller) == d.admin = caller

\* Variant of the final update that also clears the depositor count.
AllDistributed_ClearsCount(d) == [d EXCEPT !.total_deposit = 0, !.depositor_count = 0]

\* Variant of the final update that keeps total_deposit.
AllDistributed_Keeps(d) == d

\* Update DAO state: total_deposit = 0 (all funds distributed)
AllDistributed(d) == [d EXCEPT !.total_deposit = 0]

DistributeResult(caller, signer, creators, weights, accounts) ==
  IF ~signer THEN "MissingRequiredSignature"
  ELSE IF ~DaoExists THEN "BorshIoError"
  ELSE IF ~IsAdmin(Dao, caller) THEN "InvalidAccountData"
  ELSE IF overflow_checks /\ SumSeq(weights) >= U8Modulus THEN "Panic"
  ELSE IF ~WeightsValid(weights) THEN "InvalidArgument"
  ELSE IF Len(creators) # Len(weights) THEN "InvalidArgument"
  ELSE IF Panics([i \in DOMAIN weights |-> Dao.total_deposit * weights[i]]) THEN "Panic"
  ELSE IF Len(accounts) < Len(creators) THEN "NotEnoughAccountKeys"
  ELSE IF \E i \in DOMAIN creators : accounts[i] # creators[i] THEN "InvalidArgument"
  ELSE IF SumSeq(CreatorRewards(Dao, weights)) > lamports[Pool]
       THEN (IF overflow_checks THEN "Panic" ELSE "UnbalancedInstruction")
  ELSE IF Panics([i \in DOMAIN creators |->
                    lamports[creators[i]] + PaidTo(creators[i], creators, CreatorRewards(Dao, weights))])
       THEN "Panic"
  ELSE "Ok"

ProcessDistributeQualityRewards(caller, signer, creators, weights, accounts) ==
  LET rewards == CreatorRewards(Dao, weights) IN
  /\ DistributeResult(caller, signer, creators, weights, accounts) = "Ok"
  /\ lamports' = [u \in DOMAIN lamports |->
                    IF u = Pool THEN lamports[u] - SumSeq(rewards)
                    ELSE Wrap(lamports[u] + PaidTo(u, creators, rewards))]
  /\ dao' = <<AllDistributed(Dao)>>
  /\ used.payouts < MaxPayouts
  /\ used' = [used EXCEPT !.payouts = @ + 1]
  /\ last' = Committed("DistributeQualityRewards", 0, "distributed")
  /\ UNCHANGED <<overflow_checks, now, contents, depositors, proposals>>

(***************************************************************************)
(* The instructions the callers submit, with the inputs drawn from the     *)
(* given sets.                                                             *)
(***************************************************************************)
\* Content and proposal accounts are named in creation order: a caller names
\* an account that exists or the next unused address.
FreshOrUsed(slots, accounts) == {k \in slots : k <= Len(accounts) + 1}

Initialize(configs) ==
  \E caller \in Admins, signer \in BOOLEAN, c \in configs :
    ProcessInitializeDao(caller, signer, c.time_limit, c.base_fee, c.ai_moderation,
                         c.deposit_share)

SubmitContent ==
  \E caller \in Users, signer \in BOOLEAN, slot \in FreshOrUsed(ContentSlots, contents),
     h \in ContentHashes, u \in ContentUris :
    ProcessSubmitContent(caller, signer, slot, h, u)

Deposit(callers, slots, amounts) ==
  \E caller \in callers, signer \in BOOLEAN, slot \in slots, amount \in amounts :
    ProcessDeposit(caller, signer, slot, amount)

ClaimReward ==
  \E caller \in Users, signer \in BOOLEAN, slot \in ContentSlots :
    ProcessClaimReward(caller, signer, slot)

CreateVote ==
  \E caller \in Users, signer \in BOOLEAN, dslot \in DSlots,
     pslot \in FreshOrUsed(ProposalSlots, proposals),
     c \in ProposalChoices, period \in VotingPeriods :
    ProcessCreateVote(caller, signer, dslot, pslot, c.proposal_type, c.new_value, period)

Vote ==
  \E caller \in Users, signer \in BOOLEAN, dslot \in DSlots, pslot \in ProposalSlots,
     id \in ProposalIds, approve \in BOOLEAN :
    ProcessVote(caller, signer, dslot, pslot, id, approve)

DistributeQualityRewards ==
  \E caller \in Users, signer \in BOOLEAN, x \in Distributions :
    ProcessDistributeQualityRewards(caller, signer, x.creators, x.weights, x.accounts)

(***************************************************************************)
(* The bounty: the DAO is created, funded and submitted to, the last       *)
(* submitter claims, the administrator pays the quality share out.         *)
(***************************************************************************)
NextBounty ==
  \/ Tick(BountyClock)
  \/ Initialize(DaoConfigs)
  \/ SubmitContent
  \/ Deposit({"alice"}, {1}, {250, BigDeposit})
  \/ ClaimReward
  \/ DistributeQualityRewards

SpecBounty == Init /\ [][NextBounty]_vars

(***************************************************************************)
(* Governance, from the state the program is in after                      *)
(* InitializeDao(1, 10, true, 20) by alice, Deposit(500) by alice into     *)
(* slot 1 and Deposit(300) by bob into slot 2, all at time 0: proposals    *)
(* are created and voted on as the clock passes the end of the voting      *)
(* period.                                                                 *)
(***************************************************************************)
InitGovernance ==
  /\ overflow_checks \in BOOLEAN
  /\ now = 0
  /\ lamports = [InitialLamports EXCEPT !["alice"] = @ - 500, !["bob"] = @ - 300,
                                        ![Pool] = @ + 800]
  /\ dao = <<[NewDaoState("alice", 1, 10, TRUE, 20) EXCEPT
                !.total_deposit = 800, !.depositor_count = 2]>>
  /\ contents = <<>>
  /\ depositors = <<NewDepositor("alice", 500), NewDepositor("bob", 300)>>
  /\ proposals = <<>>
  /\ used = [NothingUsed EXCEPT !.deposits = 2]
  /\ last = Committed("Deposit", 2, "deposited")

NextGovernance ==
  \/ Tick(GovernanceClock)
  \/ CreateVote
  \/ Vote

SpecGovernance == InitGovernance /\ [][NextGovernance]_vars

(***************************************************************************)
(* The deposit ledger: after the DAO is created, both users deposit into   *)
(* either depositor slot, their own or the other's, fresh or used.         *)
(***************************************************************************)
DepositAmounts == {200, 300}
DepositClock == {0, 1}

NextDeposits ==
  \/ Tick(DepositClock)
  \/ Initialize(DaoConfigs)
  \/ Deposit(Users, DSlots, DepositAmounts)

SpecDeposits == Init /\ [][NextDeposits]_vars

(***************************************************************************)
(* The charter: every instruction of the program together, from            *)
(* InitializeDao on, with the clock passing the end of a voting period.    *)
(* The pool is funded by one deposit of alice.                             *)
(***************************************************************************)
CharterConfigs == { [time_limit |-> 1, base_fee |-> 10, ai_moderation |-> TRUE, deposit_share |-> 20],
                    [time_limit |-> 1, base_fee |-> 10, ai_moderation |-> TRUE, deposit_share |-> 100],
                    [time_limit |-> 1, base_fee |-> 10, ai_moderation |-> TRUE, deposit_share |-> 101] }
CharterAmounts == {300}
CharterChoices == { [proposal_type |-> "BaseFee", new_value |-> 2],
                    [proposal_type |-> "AiModeration", new_value |-> 0],
                    [proposal_type |-> "TimeLimit", new_value |-> MaxU64] }

SubmitInto(callers, slots) ==
  \E caller \in callers, signer \in BOOLEAN, slot \in FreshOrUsed(slots, contents),
     h \in ContentHashes, u \in ContentUris :
    ProcessSubmitContent(caller, signer, slot, h, u)

CreateVoteAmong(slots, choices, periods) ==
  \E caller \in Users, signer \in BOOLEAN, dslot \in DSlots,
     pslot \in FreshOrUsed(slots, proposals), c \in choices, period \in periods :
    ProcessCreateVote(caller, signer, dslot, pslot, c.proposal_type, c.new_value, period)

NextCharter ==
  \/ Tick(GovernanceClock)
  \/ Initialize(CharterConfigs)
  \/ SubmitInto(Users, {1})
  \/ (used.deposits = 0 /\ Deposit({"alice"}, {1}, CharterAmounts))
  \/ ClaimReward
  \/ CreateVoteAmong({1}, CharterChoices, {MinVotingPeriod})
  \/ Vote
  \/ DistributeQualityRewards

SpecCharter == Init /\ [][NextCharter]_vars

(***************************************************************************)
(* The launch: the DAO is created by any user, at any clock value and with *)
(* any parameters, and content is submitted to it.                         *)
(***************************************************************************)
LaunchTimes == {0, 5}
LaunchClock == {5, 6, 7}
LaunchTimeLimits == {0, 1, MaxU64}
LaunchBaseFees == {0, 10}
LaunchShares == {0, 1, 100, 101, 255}

InitLaunch ==
  /\ overflow_checks \in BOOLEAN
  /\ now \in LaunchTimes
  /\ lamports = InitialLamports
  /\ dao = <<>>
  /\ contents = <<>>
  /\ depositors = << >>
  /\ proposals = <<>>
  /\ used = NothingUsed
  /\ last = Committed("none", 0, "")

InitializeAny ==
  \E caller \in Users, signer \in BOOLEAN, time_limit \in LaunchTimeLimits,
     base_fee \in LaunchBaseFees, ai_moderation \in BOOLEAN,
     deposit_share \in LaunchShares :
    ProcessInitializeDao(caller, signer, time_limit, base_fee, ai_moderation,
                         deposit_share)

NextLaunch ==
  \/ Tick(LaunchClock)
  \/ InitializeAny
  \/ SubmitContent

SpecLaunch == InitLaunch /\ [][NextLaunch]_vars

(***************************************************************************)
(* The payout: small and large deposits, submission fees, claims, and the  *)
(* administrator's distributions with weights that are valid, invalid,     *)
(* of the wrong length, over 8 bits in sum, or paired with a wrong account.*)
(***************************************************************************)
PayoutAmounts == {5, 250, BigDeposit}
PayoutClock == {0, 1}
PayoutDistributions ==
  { [creators |-> <<"alice", "bob">>, accounts |-> <<"alice", "bob">>, weights |-> <<50, 50>>],
    [creators |-> <<"alice", "bob">>, accounts |-> <<"alice", "bob">>, weights |-> <<200, 156>>],
    [creators |-> <<"alice", "bob">>, accounts |-> <<"alice", "bob">>, weights |-> <<30, 30>>],
    [creators |-> <<"alice", "bob">>, accounts |-> <<"alice", "bob">>, weights |-> <<100>>],
    [creators |-> <<"alice", "bob">>, accounts |-> <<"alice", "alice">>, weights |-> <<50, 50>>] }

DistributeAmong(distributions) ==
  \E caller \in Users, signer \in BOOLEAN, x \in distributions :
    ProcessDistributeQualityRewards(caller, signer, x.creators, x.weights, x.accounts)

NextPayout ==
  \/ Tick(PayoutClock)
  \/ Initialize(DaoConfigs)
  \/ SubmitContent
  \/ Deposit({"alice"}, {1}, PayoutAmounts)
  \/ ClaimReward
  \/ DistributeAmong(PayoutDistributions)

SpecPayout == Init /\ [][NextPayout]_vars

(***************************************************************************)
(* The claims about ClaimReward (checked under SpecBounty).                *)
(***************************************************************************)

\* C1: in every reachable state, for every caller, signer flag and content
\* record, ClaimReward succeeds if and only if the caller signed and is the
\* content's author, now >= last_activity_timestamp + time_limit, and
\* content.timestamp = last_activity_timestamp.
C1_ClaimSucceedsIffEligible ==
  \A caller \in Users, signer \in BOOLEAN, slot \in DOMAIN contents :
    (ClaimRewardResult(caller, signer, slot) = "Ok")
      <=> /\ signer
          /\ contents[slot].author = caller
          /\ now >= Dao.last_activity_timestamp + Dao.time_limit
          /\ contents[slot].timestamp = Dao.last_activity_timestamp

\* C2: a ClaimReward can succeed only for the author of the most recent
\* successful SubmitContent (content accounts are in submission order).
C2_OnlyLastSubmitterClaims ==
  \A caller \in Users, signer \in BOOLEAN, slot \in DOMAIN contents :
    (ClaimRewardResult(caller, signer, slot) = "Ok")
      => caller = contents[Len(contents)].author

\* Content c was superseded by a submission that committed after c's deadline
\* (time_limit does not change under SpecBounty).
Raced(c) ==
  \E c2 \in DOMAIN contents :
    /\ c2 > c
    /\ contents[c2].timestamp > contents[c].timestamp + Dao.time_limit

\* C3: once a SubmitContent has committed after the deadline of content c, every
\* ClaimReward naming c fails, whoever calls it and whenever it is processed.
C3_ClaimAfterLateSubmissionFails ==
  \A caller \in Users, signer \in BOOLEAN, c \in DOMAIN contents :
    Raced(c) => ClaimRewardResult(caller, signer, c) # "Ok"

\* C3 witness: c's author claims c after the race, the time limit since the
\* last activity has passed again, and the claim is refused because c is not
\* the last submission.
C3_Witness ==
  \E c \in DOMAIN contents :
    /\ Raced(c)
    /\ contents[c].author # contents[Len(contents)].author
    /\ now >= Dao.last_activity_timestamp + Dao.time_limit
    /\ ClaimRewardResult(contents[c].author, TRUE, c) = "InvalidArgument"

\* C4: a successful ClaimReward in a state with total_deposit = D and
\* deposit_share = s moves exactly D - floor(D*s/100) from the pool to the
\* caller and leaves total_deposit = floor(D*s/100).
C4_ClaimPaysMajorityShare ==
  [][\A caller \in Users, signer \in BOOLEAN, slot \in ContentSlots :
       ProcessClaimReward(caller, signer, slot) =>
         LET D == Dao.total_deposit
             s == Dao.deposit_share
         IN /\ lamports[Pool] - lamports'[Pool] = D - ((D * s) \div 100)
            /\ lamports'[caller] - lamports[caller] = D - ((D * s) \div 100)
            /\ dao'[1].total_deposit = (D * s) \div 100]_vars

(***************************************************************************)
(* The claims about Vote (checked under SpecGovernance).                   *)
(***************************************************************************)

\* C5: when a proposal is unexecuted with yes_votes > no_votes and now has
\* reached or passed voting_end_time, one more (approving) Vote by any
\* depositor succeeds and sets is_executed.
C5_FinalVoteExecutes ==
  \A pslot \in DOMAIN proposals, dslot \in DOMAIN depositors :
    LET p == proposals[pslot] IN
    (p.yes_votes > p.no_votes /\ ~p.is_executed /\ now >= p.voting_end_time)
      => /\ VoteResult(depositors[dslot].pubkey, TRUE, dslot, pslot, p.id, TRUE) = "Ok"
         /\ VotedProposal(dslot, pslot, TRUE).is_executed

\* C6: after a Vote evaluated at now >= voting_end_time found
\* yes_votes <= no_votes ("Proposal rejected"), no step executes that proposal.
C6_RejectionIsPermanent ==
  [][(last.op = "Vote" /\ last.log = "rejected")
       => ~proposals'[last.slot].is_executed]_vars

\* C7: is_executed never goes back from true to false, and a Vote on a proposal
\* that is already executed leaves DaoState as it is.
C7_ExecutionLatch ==
  [][\A pslot \in DOMAIN proposals :
       proposals[pslot].is_executed =>
         /\ proposals'[pslot].is_executed
         /\ \A caller \in Users, signer \in BOOLEAN, dslot \in DSlots,
               id \in ProposalIds, approve \in BOOLEAN :
              ProcessVote(caller, signer, dslot, pslot, id, approve) => dao' = dao]_vars

\* C7 witness: the last invocation was a Vote on an executed TimeLimit proposal
\* whose new_value is no longer the DAO's time_limit (another proposal changed
\* it since), and the vote was only recorded.
C7_Witness ==
  /\ last.op = "Vote"
  /\ last.log = "recorded"
  /\ proposals[last.slot].is_executed
  /\ proposals[last.slot].proposal_type = "TimeLimit"
  /\ Dao.time_limit # proposals[last.slot].new_value

C9_TieIsRejection ==
  [][\A caller \in Users, signer \in BOOLEAN, dslot \in DSlots,
        pslot \in DOMAIN proposals, id \in ProposalIds, approve \in BOOLEAN :
       ( /\ ProcessVote(caller, signer, dslot, pslot, id, approve)
         /\ now >= proposals[pslot].voting_end_time
         /\ proposals'[pslot].yes_votes = proposals'[pslot].no_votes )
       => /\ proposals'[pslot].is_executed = proposals[pslot].is_executed
          /\ dao' = dao]_vars

\* C9 witness: the last invocation was a Vote at the end of the voting period
\* that left a tie of non-zero tallies, and the proposal is not executed.
C9_Witness ==
  /\ last.op = "Vote"
  /\ last.log = "rejected"
  /\ proposals[last.slot].yes_votes = proposals[last.slot].no_votes
  /\ proposals[last.slot].yes_votes > 0
  /\ ~proposals[last.slot].is_executed

\* C10: a Vote that executes a proposal sets exactly the field its type names
\* (time_limit or base_fee to new_value, ai_moderation to new_value # 0) and
\* leaves every other DaoState field as it was.
C10_ExecutionSetsMatchingField ==
  [][\A caller \in Users, signer \in BOOLEAN, dslot \in DSlots,
        pslot \in DOMAIN proposals, id \in ProposalIds, approve \in BOOLEAN :
       ( /\ ProcessVote(caller, signer, dslot, pslot, id, approve)
         /\ ~proposals[pslot].is_executed
         /\ proposals'[pslot].is_executed )
       => LET p == proposals[pslot]
              d == dao'[1]
          IN /\ d.time_limit = IF p.proposal_type = "TimeLimit"
                               THEN p.new_value ELSE Dao.time_limit
             /\ d.base_fee = IF p.proposal_type = "BaseFee"
                             THEN p.new_value ELSE Dao.base_fee
             /\ d.ai_moderation = IF p.proposal_type = "AiModeration"
                                  THEN p.new_value # 0 ELSE Dao.ai_moderation
             /\ \A f \in DOMAIN Dao \ {"time_limit", "base_fee", "ai_moderation"} :
                  d[f] = Dao[f]]_vars

\* C10 witness: the last invocation executed a BaseFee proposal; base_fee is
\* its new_value and time_limit and ai_moderation still have their initial
\* values.
C10_Witness ==
  /\ last.op = "Vote"
  /\ last.log = "executed"
  /\ proposals[last.slot].proposal_type = "BaseFee"
  /\ Dao.base_fee = proposals[last.slot].new_value
  /\ Dao.time_limit = 1
  /\ Dao.ai_moderation

\* C11: every successful Vote adds exactly the voter's voting_power to
\* yes_votes when approve is true, or to no_votes when it is false, and leaves
\* the other tally as it was.  (The tallies of SpecGovernance stay far below
\* the u64 range.)
C11_VoteAddsVotingPower ==
  [][\A caller \in Users, signer \in BOOLEAN, dslot \in DSlots,
        pslot \in DOMAIN proposals, id \in ProposalIds, approve \in BOOLEAN :
       ProcessVote(caller, signer, dslot, pslot, id, approve) =>
         LET power == depositors[dslot].voting_power
             p == proposals[pslot]
             q == proposals'[pslot]
         IN /\ q.yes_votes = p.yes_votes + (IF approve THEN power ELSE 0)
            /\ q.no_votes = p.no_votes + (IF approve THEN 0 ELSE power)]_vars

\* C11 witness: alice (voting_power 500) and bob (voting_power 300) have each
\* voted once on the proposal, one approving and one rejecting, and the tallies
\* are their voting powers.
C11_Witness ==
  /\ last.op = "Vote"
  /\ used.ballots = 2
  /\ proposals[last.slot].yes_votes = depositors[1].voting_power
  /\ proposals[last.slot].no_votes = depositors[2].voting_power

C13_DepositsAccumulate ==
  [][\A caller \in Users, signer \in BOOLEAN, slot \in DSlots,
        amount \in DepositAmounts :
       ProcessDeposit(caller, signer, slot, amount) =>
         LET before == IF slot \in DOMAIN depositors THEN depositors[slot].amount ELSE 0
             rec == depositors'[slot]
         IN /\ rec.pubkey = caller
            /\ rec.amount = before + amount
            /\ rec.voting_power = before + amount
            /\ rec.locked_until = now + 604800
            /\ dao'[1].total_deposit = Dao.total_deposit + amount]_vars

\* C13 witness: the same identity has deposited 200 and 300 (in either order)
\* into one slot, the second time at clock 1: its record holds 500 and 500 and
\* is locked until 1 + 604800, and total_deposit is 500.
C13_Witness ==
  /\ last.op = "Deposit"
  /\ used.deposits = 2
  /\ now = 1
  /\ DOMAIN depositors = {last.slot}
  /\ depositors[last.slot].amount = 200 + 300
  /\ depositors[last.slot].voting_power = 200 + 300
  /\ depositors[last.slot].locked_until = 1 + 604800
  /\ Dao.total_deposit = 200 + 300

\* C14: a successful Deposit leaves every Depositor record in another slot as
\* it was, increments depositor_count by exactly 1 when the slot held no
\* record, and leaves depositor_count as it was when the slot held the
\* caller's record.
C14_DepositFrame ==
  [][\A caller \in Users, signer \in BOOLEAN, slot \in DSlots,
        amount \in DepositAmounts :
       ProcessDeposit(caller, signer, slot, amount) =>
         /\ \A other \in DOMAIN depositors \ {slot} :
              other \in DOMAIN depositors' /\ depositors'[other] = depositors[other]
         /\ slot \notin DOMAIN depositors
              => dao'[1].depositor_count = Dao.depositor_count + 1
         /\ slot \in DOMAIN depositors
              => dao'[1].depositor_count = Dao.depositor_count]_vars

\* C14 witness: two identities have each deposited once into a slot of their
\* own; the first record is as its deposit left it and depositor_count is 2.
C14_Witness ==
  /\ last.op = "Deposit"
  /\ DOMAIN depositors = {1, 2}
  /\ depositors[1].pubkey # depositors[2].pubkey
  /\ depositors[3 - last.slot].amount \in DepositAmounts
  /\ Dao.depositor_count = 2

\* C15: every Depositor record has voting_power = amount after every step, and
\* no step (Deposit, ClaimReward, DistributeQualityRewards or any other)
\* removes a record or lowers its amount or its voting_power.
C15_VotingPowerIsAmount ==
  [][/\ \A slot \in DOMAIN depositors' :
          depositors'[slot].voting_power = depositors'[slot].amount
     /\ \A slot \in DOMAIN depositors :
          /\ slot \in DOMAIN depositors'
          /\ depositors'[slot].amount >= depositors[slot].amount
          /\ depositors'[slot].voting_power >= depositors[slot].voting_power]_vars

\* C15 witness: after two deposits into one record, a reward claim and a
\* quality payout, the record still holds the sum of the deposits as amount
\* and as voting_power, although the pool has been paid out.
C15_Witness ==
  /\ used.deposits = 2
  /\ used.claims >= 1
  /\ used.payouts >= 1
  /\ depositors[1].amount = 250 + BigDeposit
  /\ depositors[1].voting_power = 250 + BigDeposit
  /\ Dao.total_deposit = 0

\* C16: a Deposit whose slot holds a Depositor record of another identity fails
\* with InvalidAccountData.
C16_ForeignSlotIsInvalidAccountData ==
  \A caller \in Users, slot \in DOMAIN depositors, amount \in DepositAmounts :
    (DaoExists /\ depositors[slot].pubkey # caller /\ lamports[caller] >= amount)
      => DepositResult(caller, TRUE, slot, amount) = "InvalidAccountData"

\* C17: there is at most one Depositor record per identity.
C17_OneRecordPerIdentity ==
  \A s1 \in DOMAIN depositors, s2 \in DOMAIN depositors :
    depositors[s1].pubkey = depositors[s2].pubkey => s1 = s2

(***************************************************************************)
(* The claims about InitializeDao and SubmitContent (checked under         *)
(* SpecLaunch).                                                            *)
(***************************************************************************)

\* C18: for every u8 deposit_share, InitializeDao by a signing caller on an
\* unused DAO account succeeds when deposit_share <= 100; when
\* deposit_share > 100 it fails with InvalidArgument in every state, used DAO
\* account or not (the check comes before the account creation), and no
\* DaoState with deposit_share > 100 is ever written.
C18_DepositShareRange ==
  /\ \A deposit_share \in 0 .. (U8Modulus - 1) :
       /\ deposit_share > 100
            => InitializeDaoResult(TRUE, deposit_share) = "InvalidArgument"
       /\ (deposit_share <= 100 /\ ~DaoExists)
            => InitializeDaoResult(TRUE, deposit_share) = "Ok"
  /\ DaoExists => Dao.deposit_share <= 100

\* C18 witness: the DAO has just been created with deposit_share = 100, and in
\* this state a request with deposit_share = 101 is refused as an invalid
\* argument.
C18_Witness ==
  /\ last.op = "InitializeDao"
  /\ Dao.deposit_share = 100
  /\ InitializeDaoResult(TRUE, 101) = "InvalidArgument"

\* C19: a successful InitializeDao writes a DaoState with admin = caller, the
\* four parameters as given, last_activity_timestamp = now and the four
\* counters at 0.
C19_FreshDaoState ==
  [][\A caller \in Users, signer \in BOOLEAN, time_limit \in LaunchTimeLimits,
        base_fee \in LaunchBaseFees, ai_moderation \in BOOLEAN,
        deposit_share \in LaunchShares :
       ProcessInitializeDao(caller, signer, time_limit, base_fee, ai_moderation,
                            deposit_share)
       => dao' = << [ admin |-> caller,
                      time_limit |-> time_limit,
                      base_fee |-> base_fee,
                      ai_moderation |-> ai_moderation,
                      deposit_share |-> deposit_share,
                      last_activity_timestamp |-> now,
                      total_deposit |-> 0,
                      active_proposal_count |-> 0,
                      content_count |-> 0,
                      depositor_count |-> 0 ] >>]_vars

\* C19 witness: bob has just created the DAO at clock 5 with
\* time_limit = u64::MAX, base_fee = 0, ai_moderation = false and
\* deposit_share = 1.
C19_Witness ==
  /\ last.op = "InitializeDao"
  /\ now = 5
  /\ Dao.admin = "bob"
  /\ Dao.time_limit = MaxU64
  /\ Dao.base_fee = 0
  /\ ~Dao.ai_moderation
  /\ Dao.deposit_share = 1
  /\ Dao.last_activity_timestamp = 5
  /\ Dao.content_count = 0

\* C20: every successful SubmitContent appends one Content record with
\* author = caller and timestamp = now, sets last_activity_timestamp to now and
\* increments content_count by exactly 1; content_count is the number of
\* submissions committed so far after every step.
C20_SubmissionResetsTimer ==
  [][/\ \A caller \in Users, signer \in BOOLEAN, slot \in ContentSlots,
           h \in ContentHashes, u \in ContentUris :
          ProcessSubmitContent(caller, signer, slot, h, u) =>
            /\ Len(contents') = Len(contents) + 1
            /\ contents'[Len(contents')].author = caller
            /\ contents'[Len(contents')].timestamp = now
            /\ dao'[1].last_activity_timestamp = now
            /\ dao'[1].content_count = Dao.content_count + 1
     /\ Len(dao') = 1 => dao'[1].content_count = Len(contents')]_vars

\* C20 witness: two submissions have been committed, the second at a later
\* clock value than the first; content_count is 2 and the timer holds the
\* second content's timestamp.
C20_Witness ==
  /\ last.op = "SubmitContent"
  /\ Len(contents) = 2
  /\ Dao.content_count = 2
  /\ contents[1].timestamp < contents[2].timestamp
  /\ contents[2].timestamp = now
  /\ Dao.last_activity_timestamp = now

(***************************************************************************)
(* The claims about DistributeQualityRewards and the pool (checked under   *)
(* SpecPayout).                                                            *)
(***************************************************************************)

\* The true sum of the weights is 100 and there is one weight per creator.
TrulyValid(x) == SumSeq(x.weights) = 100 /\ Len(x.creators) = Len(x.weights)

\* C21: a DistributeQualityRewards by the signing admin whose weights do not
\* truly sum to 100, or whose creators and weights differ in number, never
\* succeeds (the claim says moreover that it fails with InvalidArgument).
C21_InvalidDistributionFails ==
  \A x \in PayoutDistributions :
    (DaoExists /\ ~TrulyValid(x))
      => DistributeResult(Dao.admin, TRUE, x.creators, x.weights, x.accounts) # "Ok"

\* C22: in every successful DistributeQualityRewards the per-entry rewards the
\* call computes and pays, (total_deposit * weight_i) / 100 each, sum to at most
\* the pre-call total_deposit: the pool is debited by no more than
\* total_deposit.
C22_RewardsWithinTotalDeposit ==
  [][\A caller \in Users, signer \in BOOLEAN, x \in PayoutDistributions :
       ProcessDistributeQualityRewards(caller, signer, x.creators, x.weights, x.accounts)
       => /\ SumSeq(CreatorRewards(Dao, x.weights)) <= Dao.total_deposit
          /\ lamports[Pool] - lamports'[Pool] <= Dao.total_deposit]_vars

\* C23: every successful DistributeQualityRewards leaves total_deposit = 0 and
\* every other DaoState field as it was, and takes from the pool exactly what
\* it credits to the creators: whatever it did not pay stays in the pool
\* balance, outside total_deposit.
C23_TotalDepositZeroAfterPayout ==
  [][\A caller \in Users, signer \in BOOLEAN, x \in PayoutDistributions :
       ProcessDistributeQualityRewards(caller, signer, x.creators, x.weights, x.accounts)
       => /\ dao'[1].total_deposit = 0
          /\ \A f \in DOMAIN Dao \ {"total_deposit"} : dao'[1][f] = Dao[f]
          /\ lamports[Pool] - lamports'[Pool]
               = SumSeq([i \in 1 .. 2 |->
                   lamports'[<<"alice", "bob">>[i]] - lamports[<<"alice", "bob">>[i]]])]_vars

\* C23 witness: a single deposit of 5 was paid out with weights 50/50 (2 + 2):
\* total_deposit is 0 and the pool still holds the submission fees and the
\* remainder of 1.
C23_Witness ==
  /\ last.op = "DistributeQualityRewards"
  /\ used.deposits = 1
  /\ used.claims = 0
  /\ Dao.total_deposit = 0
  /\ lamports[Pool] = Dao.content_count * Dao.base_fee + 1

\* C24: DistributeQualityRewards succeeds only for a signing caller that is
\* DaoState.admin; a caller that did not sign gets MissingRequiredSignature
\* and a signing caller that is not the admin gets InvalidAccountData,
\* whatever the distribution.
C24_OnlyAdminDistributes ==
  \A caller \in Users, signer \in BOOLEAN, x \in PayoutDistributions :
    DaoExists =>
      LET r == DistributeResult(caller, signer, x.creators, x.weights, x.accounts)
      IN /\ r = "Ok" => (signer /\ caller = Dao.admin)
         /\ ~signer => r = "MissingRequiredSignature"
         /\ (signer /\ caller # Dao.admin) => r = "InvalidAccountData"

\* C24 witness: a positive total_deposit is waiting, the admin's valid
\* distribution would succeed, and the same distribution signed by bob is
\* refused as an authorization failure.
C24_Witness ==
  /\ DaoExists
  /\ Dao.total_deposit > 0
  /\ \E x \in PayoutDistributions :
       /\ DistributeResult(Dao.admin, TRUE, x.creators, x.weights, x.accounts) = "Ok"
       /\ DistributeResult("bob", TRUE, x.creators, x.weights, x.accounts)
            = "InvalidAccountData"

\* C25: a second ClaimReward on the same content, committed right after a
\* first one (no submission, deposit or payout in between), pays a reward of
\* zero and leaves total_deposit as it was: no balance and no DaoState field
\* changes.
C25_SecondClaimIsNoOp ==
  [][\A caller \in Users, signer \in BOOLEAN, slot \in ContentSlots :
       (/\ last.op = "ClaimReward"
        /\ last.slot = slot
        /\ ProcessClaimReward(caller, signer, slot))
       => /\ RewardAmount(Dao) = 0
          /\ lamports' = lamports
          /\ dao' = dao]_vars

\* C27: the pool account never holds less than DaoState.total_deposit and its
\* balance never goes below zero; the three accounts together always hold what
\* they held at the start, so what ClaimReward and DistributeQualityRewards
\* paid out is at most what deposits and submission fees paid in.
C27_PoolCoversTotalDeposit ==
  /\ lamports[Pool] >= 0
  /\ DaoExists => lamports[Pool] >= Dao.total_deposit
  /\ SumSeq([i \in 1 .. 3 |-> lamports[<<"alice", "bob", Pool>>[i]]])
       = SumSeq([i \in 1 .. 3 |-> InitialLamports[<<"alice", "bob", Pool>>[i]]])

\* C27 witness: a deposit of 250 was claimed (200 paid, 50 kept as the quality
\* share) and the rest was then distributed: total_deposit is 0 and the pool
\* still holds the submission fees.
C27_Witness ==
  /\ last.op = "DistributeQualityRewards"
  /\ used.claims = 1
  /\ used.deposits = 1
  /\ Dao.total_deposit = 0
  /\ Dao.content_count > 0
  /\ lamports[Pool] = Dao.content_count * Dao.base_fee

(***************************************************************************)
(* The claims about the DaoState parameters over the whole program         *)
(* (checked under SpecCharter).                                            *)
(***************************************************************************)

\* C28: deposit_share is within 0..100 in every DaoState that exists or is
\* written, and once the DaoState exists no step, an executing Vote included,
\* removes it or changes its deposit_share or its admin.
C28_ShareAndAdminFixed ==
  [][/\ Len(dao') = 1 => dao'[1].deposit_share \in 0 .. 100
     /\ DaoExists => /\ Dao.deposit_share \in 0 .. 100
                     /\ Len(dao') = 1
                     /\ dao'[1].deposit_share = Dao.deposit_share
                     /\ dao'[1].admin = Dao.admin]_vars

\* C28 witness: the last invocation executed a BaseFee proposal on a DAO that
\* was created with deposit_share = 100 by alice; base_fee is the proposal's
\* value, deposit_share and admin are what InitializeDao wrote.
C28_Witness ==
  /\ last.op = "Vote"
  /\ last.log = "executed"
  /\ proposals[last.slot].proposal_type = "BaseFee"
  /\ Dao.base_fee = proposals[last.slot].new_value
  /\ Dao.deposit_share = 100
  /\ Dao.admin = "alice"

\* C30: (a) a Vote at now < voting_end_time neither sets is_executed nor
\* changes DaoState; (b) once the DaoState exists, time_limit, base_fee and
\* ai_moderation change only in a Vote that executes a proposal at
\* now >= voting_end_time; (c) is_executed becomes true only in a Vote on that
\* proposal at now >= voting_end_time, and a new proposal starts unexecuted: a
\* proposal on which no Vote is cast at or after voting_end_time is never
\* executed, whatever its tallies.
C30_ChangesOnlyInDeadlineVote ==
  [][/\ \A caller \in Users, signer \in BOOLEAN, dslot \in DSlots,
           pslot \in DOMAIN proposals, id \in ProposalIds, approve \in BOOLEAN :
          ( /\ ProcessVote(caller, signer, dslot, pslot, id, approve)
            /\ now < proposals[pslot].voting_end_time )
          => /\ dao' = dao
             /\ proposals'[pslot].is_executed = proposals[pslot].is_executed
     /\ ( /\ DaoExists
          /\ \E f \in {"time_limit", "base_fee", "ai_moderation"} : dao'[1][f] # Dao[f] )
        => /\ last'.op = "Vote"
           /\ last'.slot \in DOMAIN proposals
           /\ ~proposals[last'.slot].is_executed
           /\ proposals'[last'.slot].is_executed
           /\ now >= proposals[last'.slot].voting_end_time
     /\ \A pslot \in DOMAIN proposals' :
          IF pslot \in DOMAIN proposals
          THEN (~proposals[pslot].is_executed /\ proposals'[pslot].is_executed)
                 => /\ last'.op = "Vote"
                    /\ last'.slot = pslot
                    /\ used'.ballots = used.ballots + 1
                    /\ now >= proposals[pslot].voting_end_time
          ELSE ~proposals'[pslot].is_executed]_vars

\* C30 witness: the last invocation was a Vote that was only recorded, on a
\* proposal that has more yes than no votes; the clock has since passed
\* voting_end_time and the proposal is still unexecuted, and DaoState still
\* has the value the proposal would change.
C30_Witness ==
  /\ last.op = "Vote"
  /\ last.log = "recorded"
  /\ proposals[last.slot].yes_votes > proposals[last.slot].no_votes
  /\ ~proposals[last.slot].is_executed
  /\ now > proposals[last.slot].voting_end_time
  /\ proposals[last.slot].proposal_type = "BaseFee"
  /\ Dao.base_fee # proposals[last.slot].new_value

\* C31: a Vote that does not execute the proposal (now < voting_end_time, or
\* the tallies it leaves have yes_votes <= no_votes, or is_executed was already
\* true) leaves DaoState, every balance, every Depositor and Content record and
\* every other Proposal as they were, and changes nothing but the tallies of
\* the Proposal it names.
C31_NonExecutingVoteFrame ==
  [][\A caller \in Users, signer \in BOOLEAN, dslot \in DSlots,
        pslot \in DOMAIN proposals, id \in ProposalIds, approve \in BOOLEAN :
       ( /\ ProcessVote(caller, signer, dslot, pslot, id, approve)
         /\ \/ now < proposals[pslot].voting_end_time
            \/ proposals'[pslot].yes_votes <= proposals'[pslot].no_votes
            \/ proposals[pslot].is_executed )
       => /\ dao' = dao
          /\ lamports' = lamports
          /\ depositors' = depositors
          /\ contents' = contents
          /\ DOMAIN proposals' = DOMAIN proposals
          /\ \A q \in DOMAIN proposals \ {pslot} : proposals'[q] = proposals[q]
          /\ \A f \in DOMAIN proposals[pslot] \ {"yes_votes", "no_votes"} :
               proposals'[pslot][f] = proposals[pslot][f]]_vars

\* C31 witness: the last invocation was a Vote at voting_end_time that left a
\* tie and was rejected; a Content record exists, the proposal is unexecuted
\* and DaoState still has the base_fee InitializeDao wrote.
C31_Witness ==
  /\ last.op = "Vote"
  /\ last.log = "rejected"
  /\ now = proposals[last.slot].voting_end_time
  /\ proposals[last.slot].yes_votes = proposals[last.slot].no_votes
  /\ proposals[last.slot].yes_votes > 0
  /\ ~proposals[last.slot].is_executed
  /\ proposals[last.slot].proposal_type = "BaseFee"
  /\ Dao.base_fee = 10
  /\ Len(contents) = 1

(***************************************************************************)
(* The claims about CreateVote's records and the counters.                 *)
(***************************************************************************)

\* C32: each successful CreateVote appends a Proposal with id equal to
\* active_proposal_count at that moment, voting_end_time = now + voting_period,
\* zero tallies and is_executed = false, and increments active_proposal_count
\* by 1; the proposals that exist have the ids 0, 1, 2, ... in creation order.
C32_NewProposalRecord ==
  [][/\ \A caller \in Users, signer \in BOOLEAN, dslot \in DSlots,
           pslot \in ProposalSlots, c \in ProposalChoices, period \in VotingPeriods :
          ProcessCreateVote(caller, signer, dslot, pslot, c.proposal_type,
                            c.new_value, period)
          => LET p == proposals'[Len(proposals')]
             IN /\ Len(proposals') = Len(proposals) + 1
                /\ p.id = Dao.active_proposal_count
                /\ p.voting_end_time = now + period
                /\ p.yes_votes = 0
                /\ p.no_votes = 0
                /\ ~p.is_executed
                /\ dao'[1].active_proposal_count = Dao.active_proposal_count + 1
     /\ \A k \in DOMAIN proposals' : proposals'[k].id = k - 1]_vars

\* C33: content_count, depositor_count and active_proposal_count never
\* decrease, and each changes only in its owning handler: content_count in a
\* SubmitContent that adds a Content record, depositor_count in a Deposit that
\* creates a Depositor record, active_proposal_count in a CreateVote that adds
\* a Proposal record.
C33_CountersMonotonic ==
  [][DaoExists =>
       /\ dao'[1].content_count >= Dao.content_count
       /\ dao'[1].depositor_count >= Dao.depositor_count
       /\ dao'[1].active_proposal_count >= Dao.active_proposal_count
       /\ dao'[1].content_count # Dao.content_count
            => /\ last'.op = "SubmitContent"
               /\ Len(contents') = Len(contents) + 1
       /\ dao'[1].depositor_count # Dao.depositor_count
            => /\ last'.op = "Deposit"
               /\ last'.slot \notin DOMAIN depositors
               /\ last'.slot \in DOMAIN depositors'
               /\ used'.deposits = used.deposits + 1
       /\ dao'[1].active_proposal_count # Dao.active_proposal_count
            => /\ last'.op = "CreateVote"
               /\ Len(proposals') = Len(proposals) + 1]_vars

\* C33 witness: a content was submitted, a deposit made and a proposal
\* created, then the proposal was voted on, the reward claimed and the
\* remainder distributed: the three counters are still 1.
C33_Witness ==
  /\ last.op = "DistributeQualityRewards"
  /\ used.claims > 0
  /\ used.ballots > 0
  /\ Dao.content_count = 1
  /\ Dao.depositor_count = 1
  /\ Dao.active_proposal_count = 1

\* What the Depositor records of identity u hold together.
RecordedFor(u) ==
  SumSeq([k \in 1 .. 2 |->
            IF k \in DOMAIN depositors /\ depositors[k].pubkey = u
            THEN depositors[k].amount ELSE 0])

\* C34: whatever the interleaving of the committed Deposit invocations of the
\* callers, the Depositor records of every identity hold the sum of the amounts
\* that identity has paid into the pool, and total_deposit is the sum of all
\* amounts paid in: no deposit is lost or counted twice.
C34_NoLostDeposits ==
  DaoExists =>
    /\ \A u \in Users : RecordedFor(u) = InitialLamports[u] - lamports[u]
    /\ Dao.total_deposit = lamports[Pool] - InitialLamports[Pool]
    /\ Dao.total_deposit = RecordedFor("alice") + RecordedFor("bob")

\* C34 witness: alice and bob have each deposited into their own slot, one
\* after the other; their records hold 200 and 300 and total_deposit is 500.
C34_Witness ==
  /\ last.op = "Deposit"
  /\ DOMAIN depositors = {1, 2}
  /\ depositors[1].pubkey # depositors[2].pubkey
  /\ depositors[last.slot].pubkey = "bob"
  /\ depositors[last.slot].amount = 300
  /\ RecordedFor("alice") = 200
  /\ Dao.total_deposit = 200 + 300

\* C35: a DistributeQualityRewards that pays anything out of the pool comes
\* after a successful ClaimReward: no distribution pays creators out of a
\* total_deposit from which the last submitter has not claimed yet.
C35_PayoutOnlyAfterClaim ==
  [][\A caller \in Users, signer \in BOOLEAN, x \in PayoutDistributions :
       ( /\ ProcessDistributeQualityRewards(caller, signer, x.creators, x.weights,
                                            x.accounts)
         /\ lamports'[Pool] < lamports[Pool] )
       => used.claims > 0]_vars

\* C36: Vote keeps no record of who has voted.  Right after a successful Vote
\* the same depositor's next Vote on the same proposal, for or against, is
\* accepted again, and every successful Vote adds the voter's voting_power to
\* the proposal's tallies: k votes of a depositor with power p add k * p, so
\* yes_votes + no_votes can exceed the voting power of all depositors together.
\* (The tallies of SpecGovernance stay far below the u64 range.)
C36_RepeatedVotesCount ==
  [][\A caller \in Users, signer \in BOOLEAN, dslot \in DSlots,
        pslot \in DOMAIN proposals, id \in ProposalIds, approve \in BOOLEAN :
       ProcessVote(caller, signer, dslot, pslot, id, approve)
       => /\ proposals'[pslot].yes_votes + proposals'[pslot].no_votes
               = proposals[pslot].yes_votes + proposals[pslot].no_votes
                   + depositors[dslot].voting_power
          /\ \A again \in BOOLEAN :
               (VoteResult(caller, signer, dslot, pslot, id, again) = "Ok")']_vars

\* C36 witness: after a Vote, the tallies of the proposal voted on hold more
\* than the voting power of all depositors together.
C36_Witness ==
  /\ last.op = "Vote"
  /\ proposals[last.slot].yes_votes + proposals[last.slot].no_votes
       > SumSeq([k \in 1 .. 2 |-> IF k \in DOMAIN depositors
                                  THEN depositors[k].voting_power ELSE 0])

(***************************************************************************)
(* The claims about the timer and the deadline of ClaimReward.             *)
(***************************************************************************)

\* C37: only SubmitContent changes last_activity_timestamp; a Deposit made when
\* the last submitter's claim is due leaves that claim due (it neither
\* invalidates nor delays it) and adds its amount to the total_deposit the
\* claim is computed from.
C37_OnlySubmitResetsTimer ==
  [][/\ (DaoExists /\ dao'[1].last_activity_timestamp # Dao.last_activity_timestamp)
          => last'.op = "SubmitContent"
     /\ \A caller \in Users, signer \in BOOLEAN, dslot \in DSlots,
           amount \in PayoutAmounts :
          ProcessDeposit(caller, signer, dslot, amount)
          => /\ dao'[1].total_deposit = Dao.total_deposit + amount
             /\ \A author \in Users, slot \in DOMAIN contents :
                  ClaimRewardResult(author, TRUE, slot) = "Ok"
                    => (ClaimRewardResult(author, TRUE, slot) = "Ok")']_vars

\* C38: ClaimReward evaluates the deadline with the time_limit DaoState holds
\* at claim time.  Once a TimeLimit proposal has executed and time_limit is its
\* new_value, a claim by the signing author of the last submitted content
\* succeeds only when now >= last_activity_timestamp + time_limit, and is
\* refused when now is below that sum.
C38_DeadlineUsesCurrentTimeLimit ==
  \A pslot \in DOMAIN proposals, slot \in DOMAIN contents :
    ( /\ proposals[pslot].is_executed
      /\ proposals[pslot].proposal_type = "TimeLimit"
      /\ Dao.time_limit = proposals[pslot].new_value )
    => LET r == ClaimRewardResult(contents[slot].author, TRUE, slot)
           due == now >= Dao.last_activity_timestamp + Dao.time_limit
       IN /\ r = "Ok" => due
          /\ (due /\ IsLastSubmitted(contents[slot], Dao)) => r = "Ok"
====
